---- MODULE Spec2Model ----
(***************************************************************************)
(* A model of opendevin/sandbox/sandbox.py: the exec-stream demultiplexer  *)
(* (BackgroundCommand.parse_sandbox_exec_output), background log reading   *)
(* (BackgroundCommand.read_logs) and the SandboxInteractive operations     *)
(* execute, execute_in_background, read_logs, kill_background and get_pid, *)
(* running against a container that holds a process table and one output   *)
(* socket per background exec. The cleanup hook the constructor registers  *)
(* is modelled from the design document, the class not defining it. Two    *)
(* threads calling one executor are modelled statement by statement.       *)
(*                                                                         *)
(* Bytes are integers in 0..255, byte strings are sequences of them.       *)
(* Text (str) is a sequence of one-character strings.                      *)
(***************************************************************************)
EXTENDS Integers, Sequences, FiniteSets, TLC

VARIABLES
    byteorder,            \* sys.byteorder of the host: "little" or "big"
    dmx_kind,             \* demultiplexer runs: "frames" or "raw" input
    dmx_frames,           \* the frames the input stream was built from
    dmx_input,            \* the whole byte stream to be fed
    dmx_pos,              \* number of bytes of dmx_input supplied so far
    dmx_tail,             \* tail returned by the last call
    dmx_out,              \* concatenation of the decoded outputs so far
    dmx_calls,            \* number of calls made so far: 0, 1 or 2 for "more"
    dmx_bytewise,         \* every call so far supplied exactly one byte
    dmx_early,            \* a call emitted bytes before the input was complete
    dmx_left,             \* bytes the last call left beyond where its loop ended
    RUN_AS_DEVIN,         \* the module-level configuration flag
    procs,                \* the container's live processes, in listing order
    next_pid,             \* the PID the container gives the next process
    streams,              \* the output socket of each background exec
    background_commands,  \* SandboxInteractive.background_commands (class level)
    cur_background_id,    \* cur_background_id as each instance reads it
    ex,                   \* the execute call in progress, if any
    last,                 \* how the last completed operation ended
    issued,               \* per instance, the ids execute_in_background returned
    killed_ids,           \* the ids kill_background has removed
    timed_out,            \* processes whose execute call returned the timeout
    nwrites,              \* number of frames written by background processes
    closed,               \* SandboxInteractive.closed (class level)
    cleaned,              \* processes of the commands shutdown cleanup released
    rl,                   \* the BackgroundCommand.read_logs call in progress
    thr                   \* the calls two threads make on one executor

dmxVars == <<dmx_kind, dmx_frames, dmx_input, dmx_pos, dmx_tail, dmx_out,
             dmx_calls, dmx_bytewise, dmx_early, dmx_left>>

\* the state that only cleanup, a stepwise read_logs or the threads change
auxVars == <<closed, cleaned, rl, thr>>

mainVars == <<RUN_AS_DEVIN, procs, next_pid, streams, background_commands,
              cur_background_id, ex, last, issued, killed_ids, timed_out,
              nwrites, auxVars>>

vars == <<byteorder, dmxVars, mainVars>>

----------------------------------------------------------------------------
(* Bounds of the model *)

NumInstances == 2
MaxProcs == 2
MaxWrites == 1

MaxFrames == 2
MaxPayload == 2
MaxRaw == 8

\* frames the socket of a background exec holds unread
SocketFrames == 2

----------------------------------------------------------------------------
(* Python slicing and helpers *)

Min(a, b) == IF a < b THEN a ELSE b

\* s[a:b] of Python for 0 <= a <= b: indices a .. b-1, clamped to the length
Slice(s, a, b) == SubSeq(s, a + 1, Min(b, Len(s)))

IsPrefix(p, s) == Len(p) <= Len(s) /\ SubSeq(s, 1, Len(p)) = p

\* all sequences over S of length 0..n
SeqsUpTo(S, n) == UNION {[1..k -> S] : k \in 0..n}

----------------------------------------------------------------------------
(* The frame format and BackgroundCommand.parse_sandbox_exec_output *)

\* the four stream-type tags b"\x00" .. b"\x03"
MsgTypes == {0, 1, 2, 3}

\* the header is 8 bytes: tag, three padding bytes, four length bytes
HeaderLen == 8

Padding == <<0, 0, 0>>

\* int.from_bytes(b, byteorder=order) for a 4-byte b
FromBytes(b, order) ==
    IF order = "little"
    THEN b[1] + 256 * b[2] + 65536 * b[3] + 16777216 * b[4]
    ELSE b[4] + 256 * b[3] + 65536 * b[2] + 16777216 * b[1]

\* n.to_bytes(4, byteorder=order): how a producer on the same platform
\* writes the length field
ToBytes(n, order) ==
    LET b0 == n % 256
        b1 == (n \div 256) % 256
        b2 == (n \div 65536) % 256
        b3 == (n \div 16777216) % 256
    IN IF order = "little" THEN <<b0, b1, b2, b3>> ELSE <<b3, b2, b1, b0>>

\* one frame on the wire: header then payload
EncodeFrame(f, order) ==
    <<f.type>> \o Padding \o ToBytes(Len(f.payload), order) \o f.payload

RECURSIVE EncodeFrames(_, _)
EncodeFrames(fs, order) ==
    IF fs = <<>> THEN <<>>
    ELSE EncodeFrame(Head(fs), order) \o EncodeFrames(Tail(fs), order)

RECURSIVE Payloads(_)
Payloads(fs) ==
    IF fs = <<>> THEN <<>> ELSE Head(fs).payload \o Payloads(Tail(fs))

\* bytes used for payloads and unframed data: zero (a tag and the padding
\* byte) and a letter
DataBytes == {0, 65}

\* stdout and stderr, the two tags an exec output stream interleaves
OutputTypes == {1, 2}

FrameSet == [type : MsgTypes, payload : SeqsUpTo(DataBytes, MaxPayload)]

\* the branch of the loop taken when fewer than 8 bytes remain: the
\* remainder is kept as the tail only when it starts with a tag
ShortPrefixTail(prefix) ==
    IF Slice(prefix, 0, 1) \in {<<t>> : t \in MsgTypes} THEN prefix ELSE <<>>

\* the header test of the loop
IsHeader(prefix) ==
    /\ Slice(prefix, 0, 1) \in {<<t>> : t \in MsgTypes}
    /\ Slice(prefix, 1, 4) = Padding

\* a variant that also stops on a window of exactly eight bytes
TooShort_Loose(prefix) == Len(prefix) <= HeaderLen

\* the test that ends the loop early: fewer than 8 bytes remain
TooShort(prefix) == Len(prefix) < HeaderLen

\* the while loop, from index i with res accumulated so far; stop is the
\* index at which the loop ended
RECURSIVE ParseLoop(_, _, _, _)
ParseLoop(logs, i, res, order) ==
    IF ~(i < Len(logs)) THEN [res |-> res, tail |-> <<>>, stop |-> i]
    ELSE LET prefix == Slice(logs, i, i + HeaderLen) IN
         IF TooShort(prefix)
         THEN [res |-> res, tail |-> ShortPrefixTail(prefix), stop |-> i]
         ELSE IF IsHeader(prefix)
              THEN LET msg_length == FromBytes(Slice(prefix, 4, 8), order) IN
                   ParseLoop(logs, i + HeaderLen + msg_length,
                             res \o Slice(logs, i + HeaderLen,
                                          i + HeaderLen + msg_length),
                             order)
              ELSE ParseLoop(logs, i + 1, res \o Slice(logs, i, i + 1), order)

parse_sandbox_exec_output(logs, order) == ParseLoop(logs, 0, <<>>, order)

----------------------------------------------------------------------------
(* Text: str values as sequences of one-character strings *)

SP == " "

RECURSIVE Join(_, _)
\* sep.join(parts)
Join(sep, parts) ==
    IF parts = <<>> THEN <<>>
    ELSE IF Len(parts) = 1 THEN Head(parts)
    ELSE Head(parts) \o sep \o Join(sep, Tail(parts))

\* needle in hay, for str
Contains(needle, hay) ==
    \E k \in 0..(Len(hay) - Len(needle)) :
        SubSeq(hay, k + 1, k + Len(needle)) = needle

RECURSIVE SplitLoop(_, _, _)
\* str.split(): the maximal runs of non-blank characters, in order
SplitLoop(text, word, acc) ==
    IF text = <<>>
    THEN IF word = <<>> THEN acc ELSE Append(acc, word)
    ELSE IF Head(text) = SP
         THEN SplitLoop(Tail(text), <<>>,
                        IF word = <<>> THEN acc ELSE Append(acc, word))
         ELSE SplitLoop(Tail(text), Append(word, Head(text)), acc)

Split(text) == SplitLoop(text, <<>>, <<>>)

Digit(d) == <<"0", "1", "2", "3", "4", "5", "6", "7", "8", "9">>[d + 1]

RECURSIVE Str(_)
\* str(n) for a natural number n
Str(n) == IF n < 10 THEN <<Digit(n)>> ELSE Str(n \div 10) \o <<Digit(n % 10)>>

\* bytes.decode("utf-8", errors="replace") on the bytes the model produces:
\* an ASCII byte is its character (written as its code point); a byte that
\* starts no valid sequence (0x80..0xC1, 0xF5..0xFF) becomes U+FFFD
Utf8Decode(bytes) ==
    [k \in 1..Len(bytes) |-> IF bytes[k] < 128 THEN bytes[k] ELSE 65533]

\* the value None
None == <<>>

----------------------------------------------------------------------------
(* The container: "ps aux" and "kill -9" *)

\* the commands submitted in the model; the first is a prefix of the second
Cmds == {<<"x">>, <<"x", "y">>}

\* SandboxInteractive.get_exec_cmd
get_exec_cmd(cmd) ==
    IF RUN_AS_DEVIN
    THEN << <<"s", "u">>, <<"d", "e", "v", "i", "n">>, <<"-", "c">>, cmd >>
    ELSE << <<"/", "b", "i", "n", "/", "b", "a", "s", "h">>, <<"-", "c">>, cmd >>

\* "ps aux": a header line, then one line per live process in listing
\* order, holding USER, PID and COMMAND (the columns between are left out)
PsHeader == <<"U", "S", "E", "R", SP, "P", "I", "D", SP, "C", "O", "M", "M", "A", "N", "D">>

PsLine(p) ==
    <<"r", "o", "o", "t">> \o <<SP>> \o Str(p.pid) \o <<SP>> \o Join(<<SP>>, p.args)

PsAux(table) == <<PsHeader>> \o [k \in 1..Len(table) |-> PsLine(table[k])]

\* a variant in which the last matching line wins
FirstMatch_Last(lines, cmd) ==
    LET hits == {k \in 1..Len(lines) : Contains(cmd, lines[k])}
    IN IF hits = {} THEN None
       ELSE Split(lines[CHOOSE k \in hits : \A j \in hits : j <= k])[2]

RECURSIVE FirstMatch(_, _)
\* the for loop of get_pid over the listing's lines
FirstMatch(lines, cmd) ==
    IF lines = <<>> THEN None
    ELSE IF Contains(cmd, Head(lines)) THEN Split(Head(lines))[2]
    ELSE FirstMatch(Tail(lines), cmd)

\* SandboxInteractive.get_pid, run against the process table
get_pid(table, cmd) == FirstMatch(PsAux(table), Join(<<SP>>, get_exec_cmd(cmd)))

RECURSIVE Remove(_, _)
\* the process table without the process whose PID reads pidstr
Remove(table, pidstr) ==
    IF table = <<>> THEN <<>>
    ELSE IF Str(Head(table).pid) = pidstr THEN Remove(Tail(table), pidstr)
    ELSE <<Head(table)>> \o Remove(Tail(table), pidstr)

\* exec_run("kill -9 <pid>"), issued only when pid is not None
KillIfFound(table, pid) == IF pid # None THEN Remove(table, pid) ELSE table

Alive(table, n) == \E k \in 1..Len(table) : table[k].pid = n

----------------------------------------------------------------------------
(* BackgroundCommand.read_logs *)

\* the size passed to read()
ReadSize == 4096

RECURSIVE ReadLoop(_, _, _, _)
\* the while loop of read_logs over the data the successive read() calls
\* return, until select() reports nothing ready or read() returns b""
ReadLoop(reads, logs, last_remains, order) ==
    IF reads = <<>> THEN [logs |-> logs, last_remains |-> last_remains]
    ELSE LET r == parse_sandbox_exec_output(last_remains \o Head(reads), order)
         IN ReadLoop(Tail(reads), logs \o r.res, r.tail, order)

\* what read_logs does with the tail left when the loop ends
FinalLogs(logs, last_remains) == logs \o last_remains

\* BackgroundCommand.read_logs: logs and last_remains start empty
BgReadLogs(reads, order) ==
    LET r == ReadLoop(reads, <<>>, <<>>, order)
    IN Utf8Decode(FinalLogs(r.logs, r.last_remains))

\* the data returned by the read() calls of one read_logs call that takes
\* the first n buffered bytes: one read, or two reads split after k bytes
Reads(buf, n, k) ==
    IF n = 0 THEN <<>>
    ELSE IF k = n THEN <<SubSeq(buf, 1, n)>>
    ELSE <<SubSeq(buf, 1, k), SubSeq(buf, k + 1, n)>>

----------------------------------------------------------------------------
(* SandboxInteractive *)

Instances == 1..NumInstances

\* the ids the model's callers pass
Ids == 0..(MaxProcs - 1)

\* cur_background_id = 0 in the class body
ClassCurBackgroundId == 0

NoEx == [pc |-> "idle", cmd |-> <<>>, proc |-> 0, pid |-> None]

Outcome(op, id, cmd, kind, code, text) ==
    [op |-> op, id |-> id, cmd |-> cmd, kind |-> kind, code |-> code,
     text |-> text]

\* a variant that reports the unknown id as a timeout-like value
InvalidHandle_AsValue(op, id) ==
    Outcome(op, id, <<>>, "return", -1, <<>>)

\* raise ValueError("Invalid background command id")
InvalidHandle(op, id) ==
    Outcome(op, id, <<>>, "raise", 0, <<"ValueError">>)

\* the test that opens read_logs and kill_background
Registered(id) == id \in DOMAIN background_commands

\* a variant that numbers a command by the size of the registry
AllocId_BySize(i) == Cardinality(DOMAIN background_commands)

\* the id execute_in_background gives the new command
AllocId(i) == cur_background_id[i]

\* a variant whose message leaves the command out
TimeoutMessage_NoCmd(cmd) ==
    <<"C", "o", "m", "m", "a", "n", "d", SP, "t", "i", "m", "e", "d", SP, "o", "u", "t">>

\* f"Command: \"{cmd}\" timed out"
TimeoutMessage(cmd) ==
    <<"C", "o", "m", "m", "a", "n", "d", ":", SP, "\"">> \o cmd \o
    <<"\"", SP, "t", "i", "m", "e", "d", SP, "o", "u", "t">>

\* a variant that leaves the block without waiting for the worker
ExecutorExited_NoWait == TRUE

\* the exit of the "with ThreadPoolExecutor()" block: shutdown(wait=True)
\* returns once the worker running exec_run has finished
ExecutorExited == ~Alive(procs, ex.proc)

\* no read_logs call of a background command is in progress
NoRead == [pc |-> "idle", id |-> 0, logs |-> <<>>, last_remains |-> <<>>]

\* the two threads that call one executor at the same time
Threads == {1, 2}

\* a thread that has not made its call yet
NoCall == [pc |-> "init", op |-> "none", cmd |-> <<>>, id |-> 0, proc |-> 0,
           pid |-> None, tmp |-> 0, killed |-> FALSE, closed |-> FALSE,
           outcome |-> "none"]

\* the state after construction, with the next PID of the container
MainInit(first_pid) ==
    /\ procs = <<>>
    /\ next_pid = first_pid
    /\ streams = <<>>
    /\ background_commands = <<>>
    /\ cur_background_id = [i \in Instances |-> ClassCurBackgroundId]
    /\ ex = NoEx
    /\ last = Outcome("none", 0, <<>>, "return", 0, <<>>)
    /\ issued = [i \in Instances |-> <<>>]
    /\ killed_ids = {}
    /\ timed_out = {}
    /\ nwrites = 0
    /\ closed = FALSE
    /\ cleaned = {}
    /\ rl = NoRead
    /\ thr = [t \in Threads |-> NoCall]

\* no execute call is in progress: the caller is free to make a call
Idle == ex.pc = "idle"

NewStream == [buf |-> <<>>, closed |-> FALSE, produced |-> <<>>, delivered |-> <<>>]

\* execute_in_background(cmd) on instance i. The exec starts a process and
\* opens its output socket; gone says that the process has already exited
\* when get_pid lists the processes.
ExecuteInBackground(i, cmd, gone) ==
    /\ Idle
    /\ next_pid <= MaxProcs
    /\ LET proc == [pid |-> next_pid, args |-> get_exec_cmd(cmd)]
           table == IF gone THEN procs ELSE Append(procs, proc)
           pid == get_pid(table, cmd)
           bg_cmd == [id |-> AllocId(i), command |-> cmd,
                      result |-> next_pid, pid |-> pid]
       IN /\ procs' = table
          /\ streams' = (next_pid :> NewStream) @@ streams
          /\ background_commands' =
                 (bg_cmd.id :> bg_cmd) @@ background_commands
          /\ issued' = [issued EXCEPT ![i] = Append(@, bg_cmd.id)]
          /\ last' = Outcome("execute_in_background", bg_cmd.id, cmd,
                             "return", 0, <<>>)
    /\ cur_background_id' = [cur_background_id EXCEPT ![i] = @ + 1]
    /\ next_pid' = next_pid + 1
    /\ UNCHANGED <<byteorder, dmxVars, auxVars, RUN_AS_DEVIN, ex, killed_ids,
                   timed_out, nwrites>>

\* read_logs(id), on any instance: the registry is the class-level map.
\* The read() calls of the command's read_logs take the first n buffered
\* bytes, in one read or in two reads split after k bytes.
SandboxReadLogs(id) ==
    /\ Idle
    /\ IF ~Registered(id)
       THEN /\ last' = InvalidHandle("read_logs", id)
            /\ UNCHANGED streams
       ELSE LET bg_cmd == background_commands[id]
                sock == streams[bg_cmd.result]
            IN \E n \in 0..Len(sock.buf) :
               \E k \in (IF n = 0 THEN {0} ELSE 1..n) :
                   LET reads == Reads(sock.buf, n, k)
                       text == BgReadLogs(reads, byteorder)
                   IN /\ \A j \in 1..Len(reads) : Len(reads[j]) <= ReadSize
                      /\ streams' = [streams EXCEPT ![bg_cmd.result] =
                             [@ EXCEPT !.buf = SubSeq(sock.buf, n + 1, Len(sock.buf)),
                                       !.delivered = @ \o text]]
                      /\ last' = Outcome("read_logs", id, <<>>, "return", 0, text)
    /\ UNCHANGED <<byteorder, dmxVars, auxVars, RUN_AS_DEVIN, procs, next_pid,
                   background_commands, cur_background_id, ex, issued,
                   killed_ids, timed_out, nwrites>>

\* kill_background(id), on any instance. It returns bg_cmd: the outcome
\* holds its command, its result (as code) and its pid (as text).
KillBackground(id) ==
    /\ Idle
    /\ IF ~Registered(id)
       THEN /\ last' = InvalidHandle("kill_background", id)
            /\ UNCHANGED <<procs, streams, background_commands, killed_ids>>
       ELSE LET bg_cmd == background_commands[id]
            IN /\ procs' = KillIfFound(procs, bg_cmd.pid)
               /\ streams' = [streams EXCEPT ![bg_cmd.result].closed = TRUE]
               /\ background_commands' =
                      [j \in DOMAIN background_commands \ {id} |->
                          background_commands[j]]
               /\ killed_ids' = killed_ids \cup {id}
               /\ last' = Outcome("kill_background", id, bg_cmd.command,
                                  "return", bg_cmd.result, bg_cmd.pid)
    /\ UNCHANGED <<byteorder, dmxVars, auxVars, RUN_AS_DEVIN, next_pid,
                   cur_background_id, ex, issued, timed_out, nwrites>>

\* execute(cmd) on instance i, up to the wait in future.result(timeout):
\* the worker's exec_run has started the command's process
ExecuteStart(i, cmd) ==
    /\ Idle
    /\ next_pid <= MaxProcs
    /\ procs' = Append(procs, [pid |-> next_pid, args |-> get_exec_cmd(cmd)])
    /\ ex' = [pc |-> "waiting", cmd |-> cmd, proc |-> next_pid, pid |-> None]
    /\ next_pid' = next_pid + 1
    /\ UNCHANGED <<byteorder, dmxVars, auxVars, RUN_AS_DEVIN, streams,
                   background_commands, cur_background_id, last, issued,
                   killed_ids, timed_out, nwrites>>

\* the exit codes a finished command reports in the model
ExitCodes == {0, 1}

\* future.result returns before the timeout: return exit_code, logs
ExecuteComplete(code) ==
    /\ ex.pc = "waiting"
    /\ ~Alive(procs, ex.proc)
    /\ last' = Outcome("execute", 0, ex.cmd, "return", code, <<>>)
    /\ ex' = NoEx
    /\ UNCHANGED <<byteorder, dmxVars, auxVars, RUN_AS_DEVIN, procs, next_pid, streams,
                   background_commands, cur_background_id, issued, killed_ids, timed_out, nwrites>>

\* the timeout elapses first: future.result raises TimeoutError
ExecuteTimeout ==
    /\ ex.pc = "waiting"
    /\ Alive(procs, ex.proc)
    /\ ex' = [ex EXCEPT !.pc = "get_pid"]
    /\ UNCHANGED <<byteorder, dmxVars, auxVars, RUN_AS_DEVIN, procs, next_pid, streams,
                   background_commands, cur_background_id, last, issued,
                   killed_ids, timed_out, nwrites>>

\* pid = self.get_pid(cmd)
ExecuteGetPid ==
    /\ ex.pc = "get_pid"
    /\ ex' = [ex EXCEPT !.pc = "kill", !.pid = get_pid(procs, ex.cmd)]
    /\ UNCHANGED <<byteorder, dmxVars, auxVars, RUN_AS_DEVIN, procs, next_pid, streams,
                   background_commands, cur_background_id, last, issued,
                   killed_ids, timed_out, nwrites>>

\* if pid is not None: exec_run(f"kill -9 {pid}")
ExecuteKill ==
    /\ ex.pc = "kill"
    /\ procs' = KillIfFound(procs, ex.pid)
    /\ ex' = [ex EXCEPT !.pc = "return"]
    /\ UNCHANGED <<byteorder, dmxVars, auxVars, RUN_AS_DEVIN, next_pid, streams,
                   background_commands, cur_background_id, last, issued,
                   killed_ids, timed_out, nwrites>>

\* return -1, f"Command: \"{cmd}\" timed out", through the exit of the
\* with block
ExecuteReturnTimeout ==
    /\ ex.pc = "return"
    /\ ExecutorExited
    /\ last' = Outcome("execute", 0, ex.cmd, "return", -1,
                       TimeoutMessage(ex.cmd))
    /\ timed_out' = timed_out \cup
           {[proc |-> ex.proc, found |-> ex.pid]}
    /\ ex' = NoEx
    /\ UNCHANGED <<byteorder, dmxVars, auxVars, RUN_AS_DEVIN, procs, next_pid, streams,
                   background_commands, cur_background_id, issued, killed_ids, nwrites>>

\* a process of the container ends on its own
ProcessExit(n) ==
    /\ Alive(procs, n)
    /\ procs' = Remove(procs, Str(n))
    /\ UNCHANGED <<byteorder, dmxVars, auxVars, RUN_AS_DEVIN, next_pid, streams,
                   background_commands, cur_background_id, ex, last, issued,
                   killed_ids, timed_out, nwrites>>

\* a live background process writes one frame to its output socket
ProcessWrites(n, f) ==
    /\ nwrites < MaxWrites
    /\ Alive(procs, n)
    /\ n \in DOMAIN streams
    /\ ~streams[n].closed
    /\ Len(streams[n].produced) + Len(f.payload) <= MaxPayload
    /\ streams' = [streams EXCEPT ![n] =
           [@ EXCEPT !.buf = @ \o EncodeFrame(f, byteorder),
                     !.produced = @ \o f.payload]]
    /\ nwrites' = nwrites + 1
    /\ UNCHANGED <<byteorder, dmxVars, auxVars, RUN_AS_DEVIN, procs, next_pid,
                   background_commands, cur_background_id, ex, last, issued,
                   killed_ids, timed_out>>

\* the frames background processes write: stdout or stderr, with payload
WrittenFrames == {f \in FrameSet : f.type \in OutputTypes /\ f.payload # <<>>}

RECURSIVE TerminateAll(_, _)
\* the forced kills of shutdown, one per command of cmds, each for the PID
\* the command's handle stores
TerminateAll(table, cmds) ==
    IF cmds = {} THEN table
    ELSE LET c == CHOOSE c \in cmds : TRUE
         IN TerminateAll(KillIfFound(table, c.pid), cmds \ {c})

\* cleanup(), the hook registered at construction and run at process exit
\* or explicitly: a no-op once closed; otherwise every registered command
\* is terminated through its handle and removed, and the registry is marked
\* closed. The terminations of the commands in fails raise; each error is
\* ignored and the others go on.
Cleanup(fails) ==
    /\ Idle
    /\ IF closed
       THEN /\ last' = Outcome("cleanup", 0, <<>>, "skip", 0, <<>>)
            /\ UNCHANGED <<procs, streams, background_commands, closed,
                           cleaned>>
       ELSE LET ids == DOMAIN background_commands
                done == {background_commands[id] : id \in ids \ fails}
            IN /\ fails \subseteq ids
               /\ procs' = TerminateAll(procs, done)
               /\ streams' = [n \in DOMAIN streams |->
                      IF \E c \in done : c.result = n
                      THEN [streams[n] EXCEPT !.closed = TRUE]
                      ELSE streams[n]]
               /\ background_commands' = <<>>
               /\ closed' = TRUE
               /\ cleaned' = {c.result : c \in done}
               /\ last' = Outcome("cleanup", 0, <<>>, "return", 0, <<>>)
    /\ UNCHANGED <<byteorder, dmxVars, rl, thr, RUN_AS_DEVIN, next_pid,
                   cur_background_id, ex, issued, killed_ids, timed_out,
                   nwrites>>

\* read_logs(id) up to the first select() of the command's read_logs;
\* logs and last_remains start empty
PollStart(id) ==
    /\ Idle
    /\ rl.pc = "idle"
    /\ IF ~Registered(id)
       THEN /\ last' = InvalidHandle("read_logs", id)
            /\ UNCHANGED rl
       ELSE /\ rl' = [pc |-> "select", id |-> id, logs |-> <<>>,
                      last_remains |-> <<>>]
            /\ UNCHANGED last
    /\ UNCHANGED <<byteorder, dmxVars, closed, cleaned, thr, RUN_AS_DEVIN,
                   procs, next_pid, streams, background_commands,
                   cur_background_id, ex, issued, killed_ids, timed_out,
                   nwrites>>

\* one turn of the while loop: select() reports the socket ready, read()
\* returns the first n buffered bytes, which are parsed behind the tail of
\* the turn before; the loop goes on to the next select()
PollRead(n) ==
    /\ rl.pc = "select"
    /\ LET result == background_commands[rl.id].result
           sock == streams[result]
           data == SubSeq(sock.buf, 1, n)
           r == parse_sandbox_exec_output(rl.last_remains \o data, byteorder)
       IN /\ n \in 1..Min(Len(sock.buf), ReadSize)
          /\ streams' = [streams EXCEPT ![result].buf =
                             SubSeq(sock.buf, n + 1, Len(sock.buf))]
          /\ rl' = [rl EXCEPT !.logs = @ \o r.res, !.last_remains = r.tail]
    /\ UNCHANGED <<byteorder, dmxVars, closed, cleaned, thr, RUN_AS_DEVIN,
                   procs, next_pid, background_commands, cur_background_id,
                   ex, last, issued, killed_ids, timed_out, nwrites>>

\* the loop ends: select() reports nothing ready within its wait, or read()
\* returns b"" at the end of the stream; read_logs returns
PollReturn ==
    /\ rl.pc = "select"
    /\ streams[background_commands[rl.id].result].buf = <<>>
    /\ last' = Outcome("read_logs", rl.id, <<>>, "return", 0,
                       Utf8Decode(FinalLogs(rl.logs, rl.last_remains)))
    /\ rl' = NoRead
    /\ UNCHANGED <<byteorder, dmxVars, closed, cleaned, thr, RUN_AS_DEVIN,
                   procs, next_pid, streams, background_commands,
                   cur_background_id, ex, issued, killed_ids, timed_out,
                   nwrites>>

\* a live background process writes a frame that carries no payload, while
\* the socket has room for it
ProcessWritesEmpty(n, type) ==
    /\ Alive(procs, n)
    /\ n \in DOMAIN streams
    /\ ~streams[n].closed
    /\ Len(streams[n].buf) + HeaderLen <= SocketFrames * HeaderLen
    /\ streams' = [streams EXCEPT ![n].buf =
           @ \o EncodeFrame([type |-> type, payload |-> <<>>], byteorder)]
    /\ UNCHANGED <<byteorder, dmxVars, auxVars, RUN_AS_DEVIN, procs, next_pid,
                   background_commands, cur_background_id, ex, last, issued,
                   killed_ids, timed_out, nwrites>>

----------------------------------------------------------------------------
(* Two threads calling one executor: each method runs statement by        *)
(* statement, and the other thread may run between any two statements.    *)
(* Nothing in the class takes a lock.                                     *)

\* the executor instance both threads call
Executor == 1

\* what the threads' steps leave alone
raceFixed == <<byteorder, dmxVars, closed, cleaned, rl, RUN_AS_DEVIN, ex,
               last, issued, killed_ids, timed_out, nwrites>>

\* execute_in_background(cmd) in thread t: exec_run has started the process
\* and opened its socket
ThreadExec(t, cmd) ==
    /\ thr[t].pc = "init"
    /\ next_pid <= MaxProcs
    /\ procs' = Append(procs, [pid |-> next_pid, args |-> get_exec_cmd(cmd)])
    /\ streams' = (next_pid :> NewStream) @@ streams
    /\ next_pid' = next_pid + 1
    /\ thr' = [thr EXCEPT ![t] = [@ EXCEPT !.pc = "get_pid", !.op = "bg",
                                           !.cmd = cmd, !.proc = next_pid]]
    /\ UNCHANGED <<raceFixed, background_commands, cur_background_id>>

\* pid = self.get_pid(cmd)
ThreadGetPid(t) ==
    /\ thr[t].pc = "get_pid"
    /\ thr' = [thr EXCEPT ![t] = [@ EXCEPT !.pc = "new",
                                           !.pid = get_pid(procs, thr[t].cmd)]]
    /\ UNCHANGED <<raceFixed, procs, next_pid, streams, background_commands,
                   cur_background_id>>

\* bg_cmd = BackgroundCommand(self.cur_background_id, cmd, result, pid)
ThreadNew(t) ==
    /\ thr[t].pc = "new"
    /\ thr' = [thr EXCEPT ![t] = [@ EXCEPT !.pc = "store",
                                           !.id = cur_background_id[Executor]]]
    /\ UNCHANGED <<raceFixed, procs, next_pid, streams, background_commands,
                   cur_background_id>>

\* self.background_commands[bg_cmd.id] = bg_cmd
ThreadStore(t) ==
    /\ thr[t].pc = "store"
    /\ background_commands' =
           (thr[t].id :> [id |-> thr[t].id, command |-> thr[t].cmd,
                          result |-> thr[t].proc, pid |-> thr[t].pid])
               @@ background_commands
    /\ thr' = [thr EXCEPT ![t].pc = "load"]
    /\ UNCHANGED <<raceFixed, procs, next_pid, streams, cur_background_id>>

\* self.cur_background_id += 1, first half: the attribute is read
ThreadLoad(t) ==
    /\ thr[t].pc = "load"
    /\ thr' = [thr EXCEPT ![t] = [@ EXCEPT !.pc = "incr",
                                           !.tmp = cur_background_id[Executor]]]
    /\ UNCHANGED <<raceFixed, procs, next_pid, streams, background_commands,
                   cur_background_id>>

\* self.cur_background_id += 1, second half: the sum is stored; return
ThreadIncr(t) ==
    /\ thr[t].pc = "incr"
    /\ cur_background_id' =
           [cur_background_id EXCEPT ![Executor] = thr[t].tmp + 1]
    /\ thr' = [thr EXCEPT ![t] = [@ EXCEPT !.pc = "done",
                                           !.outcome = "return"]]
    /\ UNCHANGED <<raceFixed, procs, next_pid, streams, background_commands>>

\* kill_background(id) in thread t: the membership test, and the raise
ThreadCheck(t, id) ==
    /\ thr[t].pc = "init"
    /\ thr' = [thr EXCEPT ![t] =
           IF Registered(id)
           THEN [@ EXCEPT !.pc = "fetch", !.op = "kill", !.id = id]
           ELSE [@ EXCEPT !.pc = "done", !.op = "kill", !.id = id,
                          !.outcome = "ValueError"]]
    /\ UNCHANGED <<raceFixed, procs, next_pid, streams, background_commands,
                   cur_background_id>>

\* bg_cmd = self.background_commands[id]: KeyError if the entry has gone
ThreadFetch(t) ==
    /\ thr[t].pc = "fetch"
    /\ thr' = [thr EXCEPT ![t] =
           IF Registered(thr[t].id)
           THEN [@ EXCEPT !.pc = "kill",
                          !.proc = background_commands[thr[t].id].result,
                          !.pid = background_commands[thr[t].id].pid]
           ELSE [@ EXCEPT !.pc = "done", !.outcome = "KeyError"]]
    /\ UNCHANGED <<raceFixed, procs, next_pid, streams, background_commands,
                   cur_background_id>>

\* if bg_cmd.pid is not None: exec_run(f"kill -9 {bg_cmd.pid}")
ThreadKill(t) ==
    /\ thr[t].pc = "kill"
    /\ procs' = KillIfFound(procs, thr[t].pid)
    /\ thr' = [thr EXCEPT ![t] = [@ EXCEPT !.pc = "close",
                                           !.killed = (thr[t].pid # None)]]
    /\ UNCHANGED <<raceFixed, next_pid, streams, background_commands,
                   cur_background_id>>

\* bg_cmd.result.output.close()
ThreadClose(t) ==
    /\ thr[t].pc = "close"
    /\ streams' = [streams EXCEPT ![thr[t].proc].closed = TRUE]
    /\ thr' = [thr EXCEPT ![t] = [@ EXCEPT !.pc = "pop", !.closed = TRUE]]
    /\ UNCHANGED <<raceFixed, procs, next_pid, background_commands,
                   cur_background_id>>

\* self.background_commands.pop(id): KeyError if the entry has gone;
\* return bg_cmd
ThreadPop(t) ==
    /\ thr[t].pc = "pop"
    /\ IF Registered(thr[t].id)
       THEN /\ background_commands' =
                   [j \in DOMAIN background_commands \ {thr[t].id} |->
                       background_commands[j]]
            /\ thr' = [thr EXCEPT ![t] = [@ EXCEPT !.pc = "done",
                                                   !.outcome = "return"]]
       ELSE /\ thr' = [thr EXCEPT ![t] = [@ EXCEPT !.pc = "done",
                                                   !.outcome = "KeyError"]]
            /\ UNCHANGED background_commands
    /\ UNCHANGED <<raceFixed, procs, next_pid, streams, cur_background_id>>

\* neither thread has made its call yet
NotStarted == \A t \in Threads : thr[t].pc = "init"

\* commands are registered from one thread; then each of the two threads
\* makes one call on the executor
RaceNext ==
    \/ \E cmd \in Cmds, gone \in BOOLEAN :
           NotStarted /\ ExecuteInBackground(Executor, cmd, gone)
    \/ \E t \in Threads, cmd \in Cmds : ThreadExec(t, cmd)
    \/ \E t \in Threads : ThreadGetPid(t)
    \/ \E t \in Threads : ThreadNew(t)
    \/ \E t \in Threads : ThreadStore(t)
    \/ \E t \in Threads : ThreadLoad(t)
    \/ \E t \in Threads : ThreadIncr(t)
    \/ \E t \in Threads, id \in Ids : ThreadCheck(t, id)
    \/ \E t \in Threads : ThreadFetch(t)
    \/ \E t \in Threads : ThreadKill(t)
    \/ \E t \in Threads : ThreadClose(t)
    \/ \E t \in Threads : ThreadPop(t)
    \/ \E n \in 1..MaxProcs : ProcessExit(n)

\* the operations, with background processes that write nothing
Next ==
    \/ \E i \in Instances, cmd \in Cmds, gone \in BOOLEAN :
           ExecuteInBackground(i, cmd, gone)
    \/ \E id \in Ids : SandboxReadLogs(id)
    \/ \E id \in Ids : KillBackground(id)
    \/ \E i \in Instances, cmd \in Cmds : ExecuteStart(i, cmd)
    \/ \E code \in ExitCodes : ExecuteComplete(code)
    \/ ExecuteTimeout
    \/ ExecuteGetPid
    \/ ExecuteKill
    \/ ExecuteReturnTimeout
    \/ \E n \in 1..MaxProcs : ProcessExit(n)

\* background commands whose processes write frames, polled by their caller
LogsNext ==
    \/ \E i \in Instances, cmd \in Cmds, gone \in BOOLEAN :
           ExecuteInBackground(i, cmd, gone)
    \/ \E id \in Ids : SandboxReadLogs(id)
    \/ \E id \in Ids : KillBackground(id)
    \/ \E n \in 1..MaxProcs : ProcessExit(n)
    \/ \E n \in 1..MaxProcs, f \in WrittenFrames : ProcessWrites(n, f)

\* background commands registered and removed, then shutdown cleanup
ShutdownNext ==
    \/ \E i \in Instances, cmd \in Cmds, gone \in BOOLEAN :
           ExecuteInBackground(i, cmd, gone)
    \/ \E id \in Ids : KillBackground(id)
    \/ \E n \in 1..MaxProcs : ProcessExit(n)
    \/ \E fails \in SUBSET Ids : Cleanup(fails)

\* one caller polling a background command, step by step, while the
\* command's process writes
PollNext ==
    \/ \E i \in Instances, cmd \in Cmds, gone \in BOOLEAN :
           rl.pc = "idle" /\ ExecuteInBackground(i, cmd, gone)
    \/ \E id \in Ids : PollStart(id)
    \/ \E n \in 1..(SocketFrames * HeaderLen) : PollRead(n)
    \/ PollReturn
    \/ \E n \in 1..MaxProcs : ProcessExit(n)
    \/ \E n \in 1..MaxProcs, type \in OutputTypes : ProcessWritesEmpty(n, type)

DemuxIdle ==
    /\ dmx_kind = "none"
    /\ dmx_frames = <<>>
    /\ dmx_input = <<>>
    /\ dmx_pos = 0
    /\ dmx_tail = <<>>
    /\ dmx_out = <<>>
    /\ dmx_calls = 0
    /\ dmx_bytewise = TRUE
    /\ dmx_early = FALSE
    /\ dmx_left = 0

\* the state after construction. No frame is parsed under Spec, whose
\* processes write nothing: the byte order plays no part there.
Init ==
    /\ byteorder = "little"
    /\ RUN_AS_DEVIN \in BOOLEAN
    /\ DemuxIdle
    /\ MainInit(1)

Spec == Init /\ [][Next]_vars

\* the container has run MaxProcs - 1 processes that have ended: one more
\* may start. The exec prefix plays no part in reading logs.
LogsInit ==
    /\ byteorder \in {"little", "big"}
    /\ RUN_AS_DEVIN = TRUE
    /\ DemuxIdle
    /\ MainInit(MaxProcs)

LogsSpec == LogsInit /\ [][LogsNext]_vars

ShutdownSpec == Init /\ [][ShutdownNext]_vars

RaceSpec == Init /\ [][RaceNext]_vars

\* the polling thread runs: a turn of the loop is taken while the socket is
\* ready, and read_logs returns if the socket stays not ready. Nothing
\* bounds how fast the command's process writes.
PollSpec ==
    /\ LogsInit
    /\ [][PollNext]_vars
    /\ WF_vars(\E n \in 1..(SocketFrames * HeaderLen) : PollRead(n))
    /\ WF_vars(PollReturn)

----------------------------------------------------------------------------
(* Feeding a byte stream to the demultiplexer, chunk by chunk *)

\* the framed streams fed to the demultiplexer: up to MaxFrames frames
\* carrying up to MaxPayload payload bytes in all; a single frame takes any
\* of the four tags, a longer stream interleaves stdout and stderr frames
FramedStreams ==
    {fs \in SeqsUpTo(FrameSet, MaxFrames) \ {<<>>} :
        /\ Len(Payloads(fs)) <= MaxPayload
        /\ Len(fs) > 1 => \A k \in 1..Len(fs) : fs[k].type \in OutputTypes}

\* a position of buf that holds a tag followed by three zero bytes
HasHeaderAt(buf, k) ==
    /\ k + 3 <= Len(buf)
    /\ buf[k] \in MsgTypes
    /\ SubSeq(buf, k + 1, k + 3) = Padding

NoHeaderAnywhere(buf) == \A k \in 1..Len(buf) : ~HasHeaderAt(buf, k)

\* the unframed buffers: every buffer of up to MaxRaw bytes over DataBytes
\* that holds no valid frame header at any offset
RawBuffers ==
    {buf \in SeqsUpTo(DataBytes, MaxRaw) : NoHeaderAnywhere(buf)}

\* the host's byte order is either one for a single frame; it plays the
\* same part in each frame of a longer stream and none in an unframed buffer
DemuxInit ==
    /\ byteorder \in {"little", "big"}
    /\ \/ /\ dmx_kind = "frames"
          /\ dmx_frames \in FramedStreams
          /\ Len(dmx_frames) > 1 => byteorder = "little"
          /\ dmx_input = EncodeFrames(dmx_frames, byteorder)
       \/ /\ dmx_kind = "raw"
          /\ byteorder = "little"
          /\ dmx_frames = <<>>
          /\ dmx_input \in RawBuffers
    /\ dmx_pos = 0
    /\ dmx_tail = <<>>
    /\ dmx_out = <<>>
    /\ dmx_calls = 0
    /\ dmx_bytewise = TRUE
    /\ dmx_early = FALSE
    /\ dmx_left = 0
    /\ RUN_AS_DEVIN = TRUE
    /\ MainInit(1)

\* one call: parse_sandbox_exec_output(tail + next k bytes), tail threaded
DemuxFeed(k) ==
    /\ dmx_pos + k <= Len(dmx_input)
    /\ LET chunk == SubSeq(dmx_input, dmx_pos + 1, dmx_pos + k)
           r == parse_sandbox_exec_output(dmx_tail \o chunk, byteorder)
       IN /\ dmx_out' = dmx_out \o r.res
          /\ dmx_tail' = r.tail
          /\ dmx_early' = (dmx_early \/
                           (r.res # <<>> /\ dmx_pos + k < Len(dmx_input)))
          /\ dmx_left' = Len(dmx_tail \o chunk) -
                             Min(r.stop, Len(dmx_tail \o chunk))
    /\ dmx_pos' = dmx_pos + k
    /\ dmx_calls' = Min(dmx_calls + 1, 2)
    /\ dmx_bytewise' = (dmx_bytewise /\ k = 1)
    /\ UNCHANGED <<byteorder, dmx_kind, dmx_frames, dmx_input, mainVars>>

DemuxNext == \E k \in 1..(MaxFrames * (HeaderLen + MaxPayload)) : DemuxFeed(k)

DemuxSpec == DemuxInit /\ [][DemuxNext]_vars

\* the executor's own steps are taken when they can be: its thread runs.
\* Nothing makes a command end, so no fairness is put on ProcessExit.
LiveSpec ==
    /\ Init
    /\ [][Next]_vars
    /\ WF_vars(\E code \in ExitCodes : ExecuteComplete(code))
    /\ WF_vars(ExecuteGetPid)
    /\ WF_vars(ExecuteKill)
    /\ WF_vars(ExecuteReturnTimeout)

----------------------------------------------------------------------------
(* The claims *)

\* C1: when a stream of valid frames has been supplied whole, in chunks
\* split at any offsets with the tail threaded through, the decoded outputs
\* concatenated are the frames' payloads concatenated.
C1_RoundTrip ==
    (dmx_kind = "frames" /\ dmx_pos = Len(dmx_input))
        => dmx_out = Payloads(dmx_frames)

\* C2: one call on a buffer that holds no valid frame header at any offset
\* returns the buffer itself as output, and an empty tail.
C2_Fallback ==
    (dmx_kind = "raw" /\ dmx_calls = 1 /\ dmx_pos = Len(dmx_input))
        => (dmx_out = dmx_input /\ dmx_tail = <<>>)

\* C3: one valid frame supplied one byte per call emits nothing before its
\* last byte; after the last byte the output is the payload and the tail is
\* empty.
C3_PartialHeader ==
    (dmx_kind = "frames" /\ Len(dmx_frames) = 1 /\ dmx_bytewise)
        => /\ ~dmx_early
           /\ dmx_pos = Len(dmx_input)
                  => (dmx_out = Payloads(dmx_frames) /\ dmx_tail = <<>>)

\* C4: for every registered background command, the results of its
\* read_logs calls concatenated are the payload its process has produced,
\* in order: a prefix of it while bytes are still buffered, all of it once
\* every buffered byte has been read.
C4_LogsInOrder ==
    \A id \in DOMAIN background_commands :
        LET sock == streams[background_commands[id].result]
        IN /\ IsPrefix(sock.delivered, Utf8Decode(sock.produced))
           /\ sock.buf = <<>> => sock.delivered = Utf8Decode(sock.produced)

\* C5: the ids one executor's execute_in_background calls return are
\* 0, 1, 2, ... in call order, whatever kill_background calls come between.
C5_IdMonotonic ==
    \A i \in Instances :
        \A k \in 1..Len(issued[i]) : issued[i][k] = k - 1

\* C5 happens: an executor has returned two ids, the first of which was
\* removed.
C5_Witness ==
    \E i \in Instances :
        /\ Len(issued[i]) = 2
        /\ issued[i][1] \in killed_ids
        /\ ~Registered(issued[i][1])

\* C6: an id that kill_background has removed is absent from the registry
\* in every later state.
C6_KilledStaysAbsent == killed_ids \cap DOMAIN background_commands = {}

\* C7: a read_logs or kill_background call on an id that is not registered
\* raises ValueError, which is no timeout result, and leaves the registry,
\* the counters, the processes and the sockets as they were.
C7_InvalidHandle ==
    [][(/\ last' # last
        /\ last'.op \in {"read_logs", "kill_background"}
        /\ ~Registered(last'.id))
           => /\ last'.kind = "raise"
              /\ last'.text = <<"ValueError">>
              /\ last'.code # -1
              /\ UNCHANGED <<background_commands, cur_background_id, procs,
                             next_pid, streams>>]_vars

\* C7 happens: kill_background was refused while a command is registered.
C7_Witness ==
    /\ last.op = "kill_background"
    /\ last.kind = "raise"
    /\ DOMAIN background_commands # {}

\* C8: the step that ends an execute call whose timeout elapsed returns
\* (it does not raise) exit code -1 and a text that contains the command.
C8_TimeoutResult ==
    [][(ex.pc \in {"get_pid", "kill", "return"} /\ ex'.pc = "idle")
           => /\ last'.op = "execute"
              /\ last'.kind = "return"
              /\ last'.code = -1
              /\ Contains(ex.cmd, last'.text)]_vars

\* C8 happens: execute returned the timeout result after PID discovery
\* found no process.
C8_Witness ==
    /\ last.op = "execute"
    /\ last.code = -1
    /\ \E t \in timed_out : t.found = None

\* C9: once the timeout of an execute call has elapsed, the call returns.
C9_ExecuteReturns == (ex.pc = "get_pid") ~> (ex.pc = "idle")

\* C10 as stated: after execute has returned the timeout result, the
\* process it started is not running and a kill was issued for its PID.
C10_KilledBeforeReturn ==
    \A t \in timed_out :
        ~Alive(procs, t.proc) /\ t.found = Str(t.proc)

\* C10 as amended: after execute has returned the timeout result, the
\* process it started is not running.
C10_NoLeak == \A t \in timed_out : ~Alive(procs, t.proc)

\* C10 happens: execute returned the timeout result without having issued
\* a kill for the process it started.
C10_Witness == \E t \in timed_out : t.found # Str(t.proc)

\* C11: right after the first run of shutdown cleanup the registry is empty
\* and no process of a command it terminated without error is running.
C11_ShutdownComplete ==
    (last.op = "cleanup" /\ last.kind = "return")
        => /\ background_commands = <<>>
           /\ \A n \in cleaned : ~Alive(procs, n)

\* a complete frame lies somewhere in buf: a valid 8-byte header followed
\* by all the payload bytes its length field declares
HoldsFrame(buf, order) ==
    \E k \in 1..Len(buf) :
        /\ k + HeaderLen - 1 <= Len(buf)
        /\ buf[k] \in MsgTypes
        /\ SubSeq(buf, k + 1, k + 3) = Padding
        /\ k + HeaderLen - 1 + FromBytes(SubSeq(buf, k + 4, k + 7), order)
               <= Len(buf)

\* C12: the tail a call returns holds no complete frame, and the call does
\* not return before its loop has gone through its input: what lies beyond
\* the point where the loop ended is shorter than a header.
C12_TailInvariant ==
    dmx_calls >= 1
        => /\ ~HoldsFrame(dmx_tail, byteorder)
           /\ dmx_left < HeaderLen

\* C12 happens: a call on a framed stream returned an incomplete header as
\* its tail.
C12_Witness ==
    /\ dmx_kind = "frames"
    /\ dmx_calls >= 1
    /\ dmx_tail # <<>>
    /\ dmx_left = Len(dmx_tail)

\* C13: when one call is given a framed stream cut inside the payload of
\* frame j (the header of frame j is whole, its payload is not), the call
\* emits the payloads of the frames before j and nothing of frame j, and
\* its tail is the whole region from the header of frame j on.
C13_Deferral ==
    (dmx_kind = "frames" /\ dmx_calls = 1)
        => \A j \in 1..Len(dmx_frames) :
               LET before == SubSeq(dmx_frames, 1, j - 1)
                   start == Len(EncodeFrames(before, byteorder))
                   plen == Len(dmx_frames[j].payload)
               IN (/\ start + HeaderLen <= dmx_pos
                   /\ dmx_pos < start + HeaderLen + plen)
                      => /\ dmx_out = Payloads(before)
                         /\ dmx_tail = SubSeq(dmx_input, start + 1, dmx_pos)

\* C14: every read_logs call that has started returns.
C14_ReadLogsReturns == (rl.pc = "select") ~> (rl.pc = "idle")

\* C15: when both threads have returned from execute_in_background, the
\* two commands have distinct ids, each has its entry in the registry, and
\* the executor's counter is two more than before the calls.
C15_DistinctIds ==
    (\A t \in Threads : thr[t].op = "bg" /\ thr[t].pc = "done")
        => /\ thr[1].id # thr[2].id
           /\ \A t \in Threads :
                  /\ thr[t].id \in DOMAIN background_commands
                  /\ background_commands[thr[t].id].result = thr[t].proc
           /\ cur_background_id[Executor] = Len(issued[Executor]) + 2

\* C16: when both threads have ended kill_background on one id that was
\* registered when the first of them tested it, one call has returned and
\* the other has raised ValueError, the stream was closed by one call only
\* and at most one call issued the kill.
C16_ReleasedOnce ==
    (/\ \A t \in Threads : thr[t].op = "kill" /\ thr[t].pc = "done"
     /\ thr[1].id = thr[2].id
     /\ \E t \in Threads : thr[t].outcome # "ValueError")
        => /\ {thr[t].outcome : t \in Threads} = {"return", "ValueError"}
           /\ Cardinality({t \in Threads : thr[t].closed}) = 1
           /\ Cardinality({t \in Threads : thr[t].killed}) <= 1

\* C17: a step of execute_in_background, on any instance, leaves every
\* entry that was in the registry in it, unchanged.
C17_NoOverwrite ==
    [][cur_background_id' # cur_background_id
           => \A id \in DOMAIN background_commands :
                  /\ id \in DOMAIN background_commands'
                  /\ background_commands'[id] = background_commands[id]]_vars

\* C18: when kill_background has removed a command and returned it, the
\* PID stored in the command is the PID of the command's process, so that
\* the kill was issued for that process, and the command's stream is closed.
C18_Released ==
    (last.op = "kill_background" /\ last.kind = "return")
        => /\ last.text = Str(last.code)
           /\ streams[last.code].closed

\* the fully-resolved exec command string of cmd
ResolvedCmd(cmd) ==
    IF RUN_AS_DEVIN
    THEN <<"s", "u", SP, "d", "e", "v", "i", "n", SP, "-", "c", SP>> \o cmd
    ELSE <<"/", "b", "i", "n", "/", "b", "a", "s", "h", SP, "-", "c", SP>>
             \o cmd

\* the processes, by place in the listing, whose line contains the string
MatchingProcs(cmd) ==
    {k \in 1..Len(procs) : Contains(ResolvedCmd(cmd), PsLine(procs[k]))}

\* C19: the PID execute gets from get_pid on timeout is the PID of the
\* first process of the listing whose line contains the resolved command
\* string, and None when there is none; the step after it removes exactly
\* the process with that PID, and no process when the PID is None.
C19_PidDiscovery ==
    [][/\ (ex.pc = "get_pid" /\ ex'.pc = "kill")
           => ex'.pid =
                  IF MatchingProcs(ex.cmd) = {} THEN None
                  ELSE Str(procs[CHOOSE k \in MatchingProcs(ex.cmd) :
                           \A j \in MatchingProcs(ex.cmd) : k <= j].pid)
       /\ (ex.pc = "kill" /\ ex'.pc = "return")
           => \A n \in 1..next_pid :
                  Alive(procs', n) <=> (Alive(procs, n) /\ Str(n) # ex.pid)
      ]_vars

\* C19 happens: two lines of the listing matched and execute has killed
\* the first, which is not the process it started.
C19_Witness ==
    /\ ex.pc = "return"
    /\ ex.pid # None
    /\ ex.pid # Str(ex.proc)
    /\ Alive(procs, ex.proc)

====
